---- MODULE Spec2Model ----
(***************************************************************************)
(* BoberCrawler: the crawl loop of src/bober_crawler/cli.py (crawl), the   *)
(* crawl loop of src/BoberCrawler.py (run_spider), and the pure URL        *)
(* predicates both loops are built from.                                   *)
(*                                                                         *)
(* A Python str is a sequence of one-character strings:                    *)
(*   "/lo"  is  <<"/", "l", "o">>.                                         *)
(* None (urlparse(...).hostname of a URL without a host) is NoneValue,     *)
(* the text it formats to.                                                 *)
(***************************************************************************)
EXTENDS Integers, Sequences, FiniteSets, TLC

VARIABLES
    pc,         \* position of the running program
    args,       \* the command line, then the normalised argparse namespace
    queue,      \* cli.py crawl: queue
    to_visit,   \* BoberCrawler.py run_spider: to_visit
    visited,    \* visited (dedup keys in cli.py, URLs in BoberCrawler.py)
    sitemap,    \* run_spider: sitemap
    exit_code,  \* process exit status, -1 while running
    gotos,      \* history: the URLs handed to page.goto, in order
    fetched,    \* history: the URLs whose page.goto returned, in order
    last,       \* history: what the previous loop iteration did
    slept,      \* history: the delay was slept after the latest page.goto
    call,       \* pure-function harness: the arguments
    ret         \* pure-function harness: the returned value

vars == <<pc, args, queue, to_visit, visited, sitemap, exit_code,
          gotos, fetched, last, slept, call, ret>>

----------------------------------------------------------------------------
(* Python str primitives                                                   *)

\* str(None); a hostname is lower-cased, so no host equals it
NoneValue == <<"N", "o", "n", "e">>

\* s.startswith(p)
StartsWith(s, p) == Len(p) <= Len(s) /\ SubSeq(s, 1, Len(p)) = p

\* s.endswith(p)
EndsWith(s, p) ==
    Len(p) <= Len(s) /\ SubSeq(s, Len(s) - Len(p) + 1, Len(s)) = p

\* sub in s
Contains(s, sub) ==
    \E i \in 1..(Len(s) - Len(sub) + 1) : SubSeq(s, i, i + Len(sub) - 1) = sub

\* s.find(c) + 1 for a one-character c: 0 when absent
Find(s, c) ==
    IF \E i \in 1..Len(s) : s[i] = c
    THEN CHOOSE i \in 1..Len(s) : s[i] = c /\ \A j \in 1..(i - 1) : s[j] # c
    ELSE 0

\* s.rstrip(c)
RECURSIVE RStrip(_, _)
RStrip(s, c) ==
    IF s # <<>> /\ s[Len(s)] = c THEN RStrip(SubSeq(s, 1, Len(s) - 1), c) ELSE s

\* s.lstrip(c)
RECURSIVE LStrip(_, _)
LStrip(s, c) == IF s # <<>> /\ s[1] = c THEN LStrip(Tail(s), c) ELSE s

\* s.strip(c)
Strip(s, c) == LStrip(RStrip(s, c), c)

\* s.strip(): the model's only whitespace character is " "
StripWs(s) == Strip(s, " ")

\* s.split(c): the pieces between occurrences of c, empty pieces kept
RECURSIVE Split(_, _)
Split(s, c) ==
    LET i == Find(s, c) IN
    IF i = 0 THEN <<s>>
    ELSE <<SubSeq(s, 1, i - 1)>> \o Split(SubSeq(s, i + 1, Len(s)), c)

\* s.split(c, 1)
Split1(s, c) ==
    LET i == Find(s, c) IN
    IF i = 0 THEN <<s>> ELSE <<SubSeq(s, 1, i - 1), SubSeq(s, i + 1, Len(s))>>

\* re.split(r"[\/;]", s)
RECURSIVE SplitSlashSemi(_)
SplitSlashSemi(s) ==
    LET hits == {i \in 1..Len(s) : s[i] \in {"/", ";"}} IN
    IF hits = {} THEN <<s>>
    ELSE LET i == CHOOSE k \in hits : \A j \in hits : k <= j IN
         <<SubSeq(s, 1, i - 1)>> \o SplitSlashSemi(SubSeq(s, i + 1, Len(s)))

\* [x for x in parts if x]
RECURSIVE NonEmpty(_)
NonEmpty(parts) ==
    IF parts = <<>> THEN <<>>
    ELSE IF Head(parts) = <<>> THEN NonEmpty(Tail(parts))
    ELSE <<Head(parts)>> \o NonEmpty(Tail(parts))

\* parts.count(x)
Count(parts, x) == Cardinality({i \in 1..Len(parts) : parts[i] = x})

\* c.join(parts)
RECURSIVE Join(_, _)
Join(parts, c) ==
    IF parts = <<>> THEN <<>>
    ELSE IF Len(parts) = 1 THEN parts[1]
    ELSE parts[1] \o <<c>> \o Join(Tail(parts), c)

UpperLetters ==
    <<"A", "B", "C", "D", "E", "F", "G", "H", "I", "J", "K", "L", "M",
      "N", "O", "P", "Q", "R", "S", "T", "U", "V", "W", "X", "Y", "Z">>
LowerLetters ==
    <<"a", "b", "c", "d", "e", "f", "g", "h", "i", "j", "k", "l", "m",
      "n", "o", "p", "q", "r", "s", "t", "u", "v", "w", "x", "y", "z">>
Digits == {"0", "1", "2", "3", "4", "5", "6", "7", "8", "9"}

IsUpper(c) == \E i \in 1..Len(UpperLetters) : UpperLetters[i] = c
IsLower(c) == \E i \in 1..Len(LowerLetters) : LowerLetters[i] = c

LowerChar(c) ==
    IF IsUpper(c)
    THEN LowerLetters[CHOOSE i \in 1..Len(UpperLetters) : UpperLetters[i] = c]
    ELSE c

\* s.lower()
Lower(s) == [i \in 1..Len(s) |-> LowerChar(s[i])]

IsHex(c) ==
    c \in Digits \cup {"a", "b", "c", "d", "e", "f", "A", "B", "C", "D", "E", "F"}

\* The character a %XX escape decodes to.  The escapes the model's inputs
\* use are tabulated; any other byte is the opaque character "\\x".
HexToChar(h1, h2) ==
    LET x == <<LowerChar(h1), LowerChar(h2)>> IN
    CASE x = <<"2", "f">> -> "/"
      [] x = <<"2", "5">> -> "%"
      [] x = <<"2", "3">> -> "#"
      [] x = <<"3", "f">> -> "?"
      [] x = <<"3", "b">> -> ";"
      [] x = <<"2", "6">> -> "&"
      [] x = <<"3", "d">> -> "="
      [] x = <<"3", "1">> -> "1"
      [] x = <<"6", "1">> -> "a"
      [] x = <<"6", "5">> -> "e"
      [] OTHER -> "\\x"

\* urllib.parse.unquote: a string without "%" is returned as it is; else
\* every %XX with two hex digits becomes its byte, and a "%" not followed
\* by two hex digits stays
RECURSIVE unquote(_)
unquote(s) ==
    IF Find(s, "%") = 0 THEN s
    ELSE IF s[1] = "%" /\ Len(s) >= 3 /\ IsHex(s[2]) /\ IsHex(s[3])
    THEN <<HexToChar(s[2], s[3])>> \o unquote(SubSeq(s, 4, Len(s)))
    ELSE <<s[1]>> \o unquote(Tail(s))

----------------------------------------------------------------------------
(* urllib.parse.urlparse                                                   *)

IsSchemeChar(c) == IsUpper(c) \/ IsLower(c) \/ c \in Digits \cup {"+", "-", "."}

\* urlsplit's scheme: the text before the first ":" when it starts with a
\* letter and holds scheme characters only; lower-cased
HasScheme(url) ==
    LET i == Find(url, ":") IN
    /\ i > 1
    /\ IsUpper(url[1]) \/ IsLower(url[1])
    /\ \A j \in 1..(i - 1) : IsSchemeChar(url[j])

\* _splitnetloc: the netloc ends at the first of "/", "?", "#"
NetlocEnd(rest) ==
    LET hits == {i \in 3..Len(rest) : rest[i] \in {"/", "?", "#"}} IN
    IF hits = {} THEN Len(rest) + 1
    ELSE CHOOSE k \in hits : \A j \in hits : k <= j

\* _splitparams: the ";params" of the last path segment
SplitParams(path) ==
    LET slashes == {i \in 1..Len(path) : path[i] = "/"}
        lastSlash == IF slashes = {} THEN 0
                     ELSE CHOOSE k \in slashes : \A j \in slashes : j <= k
        semis == {i \in (lastSlash + 1)..Len(path) : path[i] = ";"}
    IN  IF semis = {} THEN path
        ELSE SubSeq(path, 1, (CHOOSE k \in semis : \A j \in semis : k <= j) - 1)

\* _splitparams: what follows the ";" of the last path segment
ParamsOf(path) ==
    IF Len(SplitParams(path)) < Len(path)
    THEN SubSeq(path, Len(SplitParams(path)) + 2, Len(path))
    ELSE <<>>

\* uses_params, as far as the model's schemes go
UsesParams(scheme) ==
    scheme \in {<<>>, <<"h", "t", "t", "p">>, <<"h", "t", "t", "p", "s">>,
                <<"f", "t", "p">>}

\* urlparse, last step: fragment and query split off, the record built;
\* pq is the text after the netloc, without fragment, split at the first "?"
UrlRecord(scheme, netloc, pq, fragment) ==
    [scheme   |-> scheme,
     netloc   |-> netloc,
     hostname |-> IF Split1(netloc, ":")[1] = <<>> THEN NoneValue
                  ELSE Lower(Split1(netloc, ":")[1]),
     path     |-> IF UsesParams(scheme) THEN SplitParams(pq[1]) ELSE pq[1],
     params   |-> IF UsesParams(scheme) THEN ParamsOf(pq[1]) ELSE <<>>,
     query    |-> IF Len(pq) = 2 THEN pq[2] ELSE <<>>,
     fragment |-> fragment]

\* urlparse, after the netloc: rest is the text from the path on
UrlAfterNetloc(scheme, netloc, rest) ==
    UrlRecord(scheme, netloc, Split1(Split1(rest, "#")[1], "?"),
              IF Find(rest, "#") = 0 THEN <<>> ELSE Split1(rest, "#")[2])

\* urlparse, the netloc of "//netloc..." ending before position nend
UrlNetloc(scheme, rest, nend) ==
    IF StartsWith(rest, <<"/", "/">>)
    THEN UrlAfterNetloc(scheme, SubSeq(rest, 3, nend - 1),
                        SubSeq(rest, nend, Len(rest)))
    ELSE UrlAfterNetloc(scheme, <<>>, rest)

\* urlparse, the scheme: colon is the position of the first ":"
UrlScheme(url, hasScheme, colon) ==
    IF hasScheme
    THEN UrlNetloc(Lower(SubSeq(url, 1, colon - 1)),
                   SubSeq(url, colon + 1, Len(url)),
                   NetlocEnd(SubSeq(url, colon + 1, Len(url))))
    ELSE UrlNetloc(<<>>, url, NetlocEnd(url))

\* urlparse(url): scheme, netloc, path (without ;params), params, query,
\* fragment, and the hostname property (netloc without port, lower-cased;
\* None when empty).  Leading spaces are stripped first.
\* The model's URLs carry no userinfo and no IPv6 literal.
urlparse(url) ==
    UrlScheme(LStrip(url, " "), HasScheme(LStrip(url, " ")),
              Find(LStrip(url, " "), ":"))

\* p.path or "/"
PathOrRoot(p) == IF p.path = <<>> THEN <<"/">> ELSE p.path

----------------------------------------------------------------------------
(* urllib.parse.urlunparse, urljoin, urldefrag                             *)

\* uses_relative, as far as the model's schemes go
UsesRelative(scheme) == scheme \in {<<>>, <<"h", "t", "t", "p">>, <<"h", "t", "t", "p", "s">>, <<"f", "t", "p">>}

\* uses_netloc, as far as the model's schemes go
UsesNetloc(scheme) == scheme \in {<<>>, <<"h", "t", "t", "p">>, <<"h", "t", "t", "p", "s">>, <<"f", "t", "p">>}

\* urlunsplit: url + "?" + query + "#" + fragment, empty parts left out
WithQueryFragment(url, query, fragment) ==
    url \o (IF query # <<>> THEN <<"?">> \o query ELSE <<>>)
        \o (IF fragment # <<>> THEN <<"#">> \o fragment ELSE <<>>)

\* urlunsplit: "//" + netloc + url, the url made to start with "/"
WithNetloc(scheme, netloc, url) ==
    IF netloc # <<>>
       \/ (scheme # <<>> /\ UsesNetloc(scheme) /\ ~StartsWith(url, <<"/", "/">>))
    THEN <<"/", "/">> \o netloc
         \o (IF url # <<>> /\ url[1] # "/" THEN <<"/">> \o url ELSE url)
    ELSE url

\* urlunsplit: scheme + ":" + url
WithScheme(scheme, url) ==
    IF scheme # <<>> THEN scheme \o <<":">> \o url ELSE url

\* urlunparse((scheme, netloc, path, params, query, fragment))
urlunparse(scheme, netloc, path, params, query, fragment) ==
    WithQueryFragment(
        WithScheme(scheme,
                   WithNetloc(scheme, netloc,
                              IF params # <<>> THEN path \o <<";">> \o params
                              ELSE path)),
        query, fragment)

\* ParseResult.geturl()
geturl(p) ==
    urlunparse(p.scheme, p.netloc, p.path, p.params, p.query, p.fragment)

\* urlparse(url, scheme): scheme is the default when url has none
urlparse_default(url, scheme) ==
    IF HasScheme(LStrip(url, " ")) THEN urlparse(url)
    ELSE UrlNetloc(scheme, LStrip(url, " "), NetlocEnd(LStrip(url, " ")))

\* urljoin: bpath.split("/") without a last item that is not a directory
BaseParts(parts) ==
    IF parts[Len(parts)] # <<>> THEN SubSeq(parts, 1, Len(parts) - 1)
    ELSE parts

\* urljoin: segments[1:-1] = filter(None, segments[1:-1])
FilterInner(segments) ==
    IF Len(segments) <= 2 THEN segments
    ELSE <<segments[1]>>
         \o NonEmpty(SubSeq(segments, 2, Len(segments) - 1))
         \o <<segments[Len(segments)]>>

\* urljoin: the segments to resolve
JoinSegments(bpath, path) ==
    IF StartsWith(path, <<"/">>) THEN Split(path, "/")
    ELSE FilterInner(BaseParts(Split(bpath, "/")) \o Split(path, "/"))

\* urljoin: the loop over the segments, resolved_path as a stack
RECURSIVE ResolveSegments(_, _)
ResolveSegments(segments, resolved_path) ==
    IF segments = <<>> THEN resolved_path
    ELSE IF Head(segments) = <<".", ".">>
    THEN ResolveSegments(Tail(segments),
                         IF resolved_path = <<>> THEN <<>>
                         ELSE SubSeq(resolved_path, 1, Len(resolved_path) - 1))
    ELSE IF Head(segments) = <<".">>
    THEN ResolveSegments(Tail(segments), resolved_path)
    ELSE ResolveSegments(Tail(segments),
                         Append(resolved_path, Head(segments)))

\* urljoin: "/".join(resolved_path) or "/", a trailing "" appended when the
\* last segment was "." or ".."
ResolvedPath(segments) ==
    IF segments[Len(segments)] \in {<<".">>, <<".", ".">>}
    THEN IF Join(Append(ResolveSegments(segments, <<>>), <<>>), "/") = <<>>
         THEN <<"/">>
         ELSE Join(Append(ResolveSegments(segments, <<>>), <<>>), "/")
    ELSE IF Join(ResolveSegments(segments, <<>>), "/") = <<>> THEN <<"/">>
    ELSE Join(ResolveSegments(segments, <<>>), "/")

\* urljoin, given b = urlparse(base) and u = urlparse(url, b.scheme)
UrlJoinParsed(url, b, u) ==
    IF u.scheme # b.scheme \/ ~UsesRelative(u.scheme) THEN url
    ELSE IF UsesNetloc(u.scheme) /\ u.netloc # <<>> THEN geturl(u)
    ELSE IF u.path = <<>> /\ u.params = <<>>
    THEN urlunparse(u.scheme,
                    IF UsesNetloc(u.scheme) THEN b.netloc ELSE u.netloc,
                    b.path, b.params,
                    IF u.query = <<>> THEN b.query ELSE u.query,
                    u.fragment)
    ELSE urlunparse(u.scheme,
                    IF UsesNetloc(u.scheme) THEN b.netloc ELSE u.netloc,
                    ResolvedPath(JoinSegments(b.path, u.path)),
                    u.params, u.query, u.fragment)

\* urljoin, given b = urlparse(base)
UrlJoinBase(url, b) == UrlJoinParsed(url, b, urlparse_default(url, b.scheme))

\* urljoin(base, url)
urljoin(base, url) ==
    IF base = <<>> THEN url
    ELSE IF url = <<>> THEN base
    ELSE UrlJoinBase(url, urlparse(base))

\* urldefrag(url)[0], given p = urlparse(url)
DefragParsed(url, p) ==
    IF Find(url, "#") = 0 THEN url
    ELSE urlunparse(p.scheme, p.netloc, p.path, p.params, p.query, <<>>)

\* urldefrag(url)[0]
urldefrag(url) == DefragParsed(url, urlparse(url))

----------------------------------------------------------------------------
(* src/bober_crawler/cli.py: helpers                                       *)

DEFAULT_MAX_PARAM_LEN == 200
DEFAULT_MAX_REPEAT_SEGMENTS == 3

\* parse_scope, given p = urlparse(scope_url)
ScopeOf(p) ==
    [scheme |-> p.scheme,
     host   |-> p.hostname,
     path   |-> IF RStrip(p.path, "/") = <<>> THEN <<"/">>
                ELSE RStrip(p.path, "/")]

\* parse_scope(scope_url)
parse_scope(scope_url) == ScopeOf(urlparse(scope_url))

\* in_scope, given p = urlparse(url)
InScopeParsed(p, scope) ==
    IF p.scheme # scope.scheme THEN FALSE
    ELSE IF p.hostname # scope.host THEN FALSE
    ELSE StartsWith(PathOrRoot(p), scope.path)

\* in_scope(url, scope)
in_scope(url, scope) == InScopeParsed(urlparse(url), scope)

\* is_excluded(url, excluded): excluded is a list of path prefixes
is_excluded(url, excluded) ==
    \E i \in 1..Len(excluded) :
        StartsWith(PathOrRoot(urlparse(url)), excluded[i])

EMBED == <<"/", "e", "m", "b", "e", "d", "/">>

\* wp_expand, given path = urlparse(url).path
WpExpandPath(url, path) ==
    IF EndsWith(path, <<"/">>) /\ ~EndsWith(path, EMBED)
    THEN {RStrip(url, "/") \o EMBED}
    ELSE {}

\* wp_expand(url): the set of derived endpoint candidates
wp_expand(url) == WpExpandPath(url, urlparse(url).path)

\* Code-point order of the model's characters
AsciiOrder ==
    <<" ", "%", "&", "+", ",", "-", ".", "/",
      "0", "1", "2", "3", "4", "5", "6", "7", "8", "9",
      ":", ";", "=", "?">> \o UpperLetters \o <<"\\x">> \o LowerLetters

Ord(c) == CHOOSE i \in 1..Len(AsciiOrder) : AsciiOrder[i] = c

\* a <= b for Python str
RECURSIVE StrLeq(_, _)
StrLeq(a, b) ==
    IF a = <<>> THEN TRUE
    ELSE IF b = <<>> THEN FALSE
    ELSE IF a[1] = b[1] THEN StrLeq(Tail(a), Tail(b))
    ELSE Ord(a[1]) < Ord(b[1])

\* insert x into the sorted list xs
RECURSIVE InsertSorted(_, _)
InsertSorted(x, xs) ==
    IF xs = <<>> THEN <<x>>
    ELSE IF StrLeq(x, Head(xs)) THEN <<x>> \o xs
    ELSE <<Head(xs)>> \o InsertSorted(x, Tail(xs))

\* params.sort()
RECURSIVE SortStr(_)
SortStr(xs) ==
    IF xs = <<>> THEN <<>> ELSE InsertSorted(Head(xs), SortStr(Tail(xs)))

\* [unquote(part) for part in parts if part]
RECURSIVE UnquoteAll(_)
UnquoteAll(parts) ==
    IF parts = <<>> THEN <<>>
    ELSE IF Head(parts) = <<>> THEN UnquoteAll(Tail(parts))
    ELSE <<unquote(Head(parts))>> \o UnquoteAll(Tail(parts))

\* f"{p.scheme}://{p.hostname}{path}"
SchemeHostPath(p) ==
    p.scheme \o <<":", "/", "/">> \o p.hostname \o PathOrRoot(p)

\* smart_key's params list without params.sort()
SortedParams_Unsorted(query) ==
    IF query # <<>> THEN UnquoteAll(Split(query, "&")) ELSE <<>>

\* smart_key's params list, sorted
SortedParams(query) ==
    IF query # <<>> THEN SortStr(UnquoteAll(Split(query, "&"))) ELSE <<>>

\* smart_key, given p = urlparse(url)
SmartKeyParsed(p, query_agnostic_paths) ==
    IF \E i \in 1..Len(query_agnostic_paths) :
           StartsWith(PathOrRoot(p), query_agnostic_paths[i])
    THEN SchemeHostPath(p)
    ELSE SchemeHostPath(p) \o <<"?">> \o Join(SortedParams(p.query), "&")

\* smart_key(url, query_agnostic_paths)
smart_key(url, query_agnostic_paths) ==
    SmartKeyParsed(urlparse(url), query_agnostic_paths)

\* exceeds_state_token_limit: what one query parameter adds to query_parts
ParamPieces(param) ==
    IF Find(param, "=") = 0 THEN <<>>
    ELSE NonEmpty(SplitSlashSemi(Lower(unquote(Split1(param, "=")[2]))))

\* exceeds_state_token_limit: query_parts, over the parameters in order
RECURSIVE QueryParts(_)
QueryParts(params) ==
    IF params = <<>> THEN <<>>
    ELSE ParamPieces(Head(params)) \o QueryParts(Tail(params))

\* TokenOverLimit with ">=" for ">"
TokenOverLimit_AtLimit(path_parts, query_parts, tokens, max_repeat) ==
    \E t \in 1..Len(tokens) :
        Count(path_parts, tokens[t]) + Count(query_parts, tokens[t])
            >= max_repeat

\* exceeds_state_token_limit: the loop over the tokens
TokenOverLimit(path_parts, query_parts, tokens, max_repeat) ==
    \E t \in 1..Len(tokens) :
        Count(path_parts, tokens[t]) + Count(query_parts, tokens[t])
            > max_repeat

\* exceeds_state_token_limit, given p = urlparse(url)
ExceedsParsed(p, tokens, max_repeat) ==
    TokenOverLimit(NonEmpty(Split(Lower(p.path), "/")),
                   QueryParts(Split(p.query, "&")), tokens, max_repeat)

\* exceeds_state_token_limit(url, tokens, max_repeat)
exceeds_state_token_limit(url, tokens, max_repeat) ==
    IF tokens = <<>> THEN FALSE
    ELSE ExceedsParsed(urlparse(url), tokens, max_repeat)

\* is_recursive_trap: some segment of parts occurs max_repeat_segments times
SegmentRepeats(parts, max_repeat_segments) ==
    \E i \in 1..Len(parts) : Count(parts, parts[i]) >= max_repeat_segments

\* ValueIsTrap with ">" for ">=" in the repeated-segment test
ValueIsTrap_RepeatOffByOne(decoded, path, max_param_len, max_repeat_segments) ==
    \/ Len(decoded) > max_param_len
    \/ SegmentRepeats(NonEmpty(Split(decoded, "/")), max_repeat_segments + 1)
    \/ /\ path # <<>>
       /\ Strip(path, "/") # <<>>
       /\ Contains(decoded, Strip(path, "/"))

\* is_recursive_trap: the three tests on one decoded parameter value
ValueIsTrap(decoded, path, max_param_len, max_repeat_segments) ==
    \/ Len(decoded) > max_param_len
    \/ SegmentRepeats(NonEmpty(Split(decoded, "/")), max_repeat_segments)
    \/ /\ path # <<>>
       /\ Strip(path, "/") # <<>>
       /\ Contains(decoded, Strip(path, "/"))

\* is_recursive_trap: the loop body for one query parameter
ParamIsTrap(param, path, max_param_len, max_repeat_segments) ==
    /\ Find(param, "=") # 0
    /\ ValueIsTrap(unquote(Split1(param, "=")[2]), path,
                   max_param_len, max_repeat_segments)

\* is_recursive_trap, given parsed = urlparse(url)
TrapParsed(parsed, max_param_len, max_repeat_segments) ==
    IF parsed.query = <<>> THEN FALSE
    ELSE \E i \in 1..Len(Split(parsed.query, "&")) :
             ParamIsTrap(Split(parsed.query, "&")[i], parsed.path,
                         max_param_len, max_repeat_segments)

\* is_recursive_trap(url) with the default limits
is_recursive_trap(url) ==
    TrapParsed(urlparse(url),
               DEFAULT_MAX_PARAM_LEN, DEFAULT_MAX_REPEAT_SEGMENTS)

\* [p.strip() for p in parts if p.strip()]
RECURSIVE StripAll(_)
StripAll(parts) ==
    IF parts = <<>> THEN <<>>
    ELSE IF StripWs(Head(parts)) = <<>> THEN StripAll(Tail(parts))
    ELSE <<StripWs(Head(parts))>> \o StripAll(Tail(parts))

\* [p.strip() for p in s.split(",") if p.strip()]
CommaList(s) == StripAll(Split(s, ","))

\* [p.rstrip("/") for p in parts if p.strip()]
RECURSIVE RStripKept(_)
RStripKept(parts) ==
    IF parts = <<>> THEN <<>>
    ELSE IF StripWs(Head(parts)) = <<>> THEN RStripKept(Tail(parts))
    ELSE <<RStrip(Head(parts), "/")>> \o RStripKept(Tail(parts))

\* [t.strip().lower() for t in parts if t.strip()]
RECURSIVE LowerAll(_)
LowerAll(parts) ==
    IF parts = <<>> THEN <<>>
    ELSE <<Lower(Head(parts))>> \o LowerAll(Tail(parts))

----------------------------------------------------------------------------
(* src/BoberCrawler.py: helpers                                            *)

\* is_same_scope(url, scope_host), validate_start_in_scope
is_same_scope(url, scope_host) == urlparse(url).hostname = scope_host

\* s.replace(old, new, 1)
ReplaceFirst(s, old, new) ==
    IF Contains(s, old)
    THEN LET i == CHOOSE k \in 1..(Len(s) - Len(old) + 1) :
                      /\ SubSeq(s, k, k + Len(old) - 1) = old
                      /\ \A j \in 1..(k - 1) :
                             SubSeq(s, j, j + Len(old) - 1) # old
         IN  SubSeq(s, 1, i - 1) \o new \o SubSeq(s, i + Len(old), Len(s))
    ELSE s

\* re.match(r'https?:/[^/]', link)
SingleSlashAfterScheme(link) ==
    \/ StartsWith(link, <<"h", "t", "t", "p", ":", "/">>) /\ Len(link) > 6 /\ link[7] # "/"
    \/ StartsWith(link, <<"h", "t", "t", "p", "s", ":", "/">>) /\ Len(link) > 7 /\ link[8] # "/"

\* normalize_url: the repair of "http:/host"
RepairSlash(link) ==
    IF SingleSlashAfterScheme(link)
    THEN ReplaceFirst(ReplaceFirst(link, <<"h", "t", "t", "p", ":", "/">>, <<"h", "t", "t", "p", ":", "/", "/">>),
                      <<"h", "t", "t", "p", "s", ":", "/">>, <<"h", "t", "t", "p", "s", ":", "/", "/">>)
    ELSE link

\* normalize_url, from urlparse(abs_url) on; None is str(None), which no
\* returned URL equals
NormalizeParsed(parsed) ==
    IF parsed.scheme \notin {<<"h", "t", "t", "p">>, <<"h", "t", "t", "p", "s">>} THEN NoneValue
    ELSE urlunparse(parsed.scheme, Lower(parsed.netloc), parsed.path,
                    parsed.params, parsed.query, parsed.fragment)

\* normalize_url, after link = link.strip()
NormalizeStripped(base, link) ==
    IF \/ StartsWith(Lower(link), <<"j", "a", "v", "a", "s", "c", "r", "i", "p", "t", ":">>)
       \/ StartsWith(Lower(link), <<"m", "a", "i", "l", "t", "o", ":">>)
       \/ StartsWith(Lower(link), <<"t", "e", "l", ":">>)
    THEN NoneValue
    ELSE NormalizeParsed(
             urlparse(unquote(urldefrag(urljoin(base, RepairSlash(link))))))

\* normalize_url(base, link)
normalize_url(base, link) ==
    IF link = <<>> THEN NoneValue ELSE NormalizeStripped(base, StripWs(link))

\* parse_forbidden_paths: the leading slash
WithLeadingSlash(p) == IF StartsWith(p, <<"/">>) THEN p ELSE <<"/">> \o p

\* parse_forbidden_paths: re.sub(r'/+$', '', p) if p != '/' else '/'
WithoutTrailingSlashes(p) == IF p # <<"/">> THEN RStrip(p, "/") ELSE <<"/">>

\* parse_forbidden_paths: the loop over parts
RECURSIVE NormalizePrefixes(_)
NormalizePrefixes(parts) ==
    IF parts = <<>> THEN <<>>
    ELSE <<WithoutTrailingSlashes(WithLeadingSlash(Head(parts)))>>
             \o NormalizePrefixes(Tail(parts))

\* insert x into xs, sorted by descending length, after every entry at
\* least as long (list.sort is stable)
RECURSIVE InsertByLen(_, _)
InsertByLen(x, xs) ==
    IF xs = <<>> THEN <<x>>
    ELSE IF Len(Head(xs)) >= Len(x) THEN <<Head(xs)>> \o InsertByLen(x, Tail(xs))
    ELSE <<x>> \o xs

\* normalized.sort(key=lambda x: -len(x))
RECURSIVE SortByLenDesc(_)
SortByLenDesc(xs) ==
    IF xs = <<>> THEN <<>>
    ELSE InsertByLen(xs[Len(xs)], SortByLenDesc(SubSeq(xs, 1, Len(xs) - 1)))

\* parse_forbidden_paths(raw); raw = <<>> stands for None and for ""
parse_forbidden_paths(raw) ==
    IF raw = <<>> THEN <<>>
    ELSE SortByLenDesc(NormalizePrefixes(CommaList(raw)))

\* path_is_forbidden: the loop over the prefixes, first match returns
RECURSIVE ForbiddenLoop(_, _)
ForbiddenLoop(path, prefixes) ==
    IF prefixes = <<>> THEN FALSE
    ELSE IF Head(prefixes) = <<"/">> THEN TRUE
    ELSE IF path = Head(prefixes) THEN TRUE
    ELSE IF StartsWith(path, RStrip(Head(prefixes), "/") \o <<"/">>) THEN TRUE
    ELSE ForbiddenLoop(path, Tail(prefixes))

\* path_is_forbidden with a plain prefix test, path.startswith(fp)
path_is_forbidden_PlainPrefix(url, forbidden_prefixes) ==
    \E i \in 1..Len(forbidden_prefixes) :
        \/ forbidden_prefixes[i] = <<"/">>
        \/ StartsWith(PathOrRoot(urlparse(url)), forbidden_prefixes[i])

\* path_is_forbidden(url, forbidden_prefixes)
path_is_forbidden(url, forbidden_prefixes) ==
    IF forbidden_prefixes = <<>> THEN FALSE
    ELSE ForbiddenLoop(PathOrRoot(urlparse(url)), forbidden_prefixes)

----------------------------------------------------------------------------
(* Bounds of the model                                                     *)

\* max_pages ranges over 1..MaxPages
MaxPages == 3
\* the browser only returns a page whose links keep the queue this short
MaxQueue == 4

----------------------------------------------------------------------------
(* src/bober_crawler/cli.py: main and crawl                                *)

U_root  == <<"h", "t", "t", "p", ":", "/", "/", "s", "/">>
U_a     == <<"h", "t", "t", "p", ":", "/", "/", "s", "/", "a", "/">>
U_aemb  == <<"h", "t", "t", "p", ":", "/", "/", "s", "/", "a", "/", "e", "m", "b", "e", "d", "/">>
U_trap  == <<"h", "t", "t", "p", ":", "/", "/", "s", "/", "p", "?", "n", "=", "/", "b", "/", "b", "/", "b">>
U_out   == <<"h", "t", "t", "p", ":", "/", "/", "t", "/">>
U_x     == <<"h", "t", "t", "p", ":", "/", "/", "s", "/", "x">>
U_q1    == <<"h", "t", "t", "p", ":", "/", "/", "s", "/", "q", "?", "a", "=", "1", "&", "b", "=", "2">>
U_q2    == <<"h", "t", "t", "p", ":", "/", "/", "s", "/", "q", "?", "b", "=", "2", "&", "a", "=", "1">>
U_q3    == <<"h", "t", "t", "p", ":", "/", "/", "s", "/", "q", "?", "c", "=", "3">>
U_tok   == <<"h", "t", "t", "p", ":", "/", "/", "s", "/", "e", "m", "b", "e", "d", "/", "e", "m", "b", "e", "d", "/", "E", "m", "b", "e", "d">>
U_w     == <<"h", "t", "t", "p", ":", "/", "/", "s", "/", "w", "/", "?", "n", "=", "/", "e", "m", "b", "e", "d", "/", "e", "m", "b", "e", "d", "/">>
U_ez    == <<"h", "t", "t", "p", ":", "/", "/", "s", "/", "e", "m", "b", "e", "d", "/", "e", "m", "b", "e", "d", "/", "z", "/">>

\* What extract_urls can return for a fetched page: each a set of absolute
\* URLs, listed in the order the for loop happens to iterate it
CliPages ==
    { <<>>,
      <<U_a, U_q1, U_q3>>,
      <<U_q2, U_x, U_q1>>,
      <<U_trap, U_out, U_tok>>,
      <<U_w, U_ez>>,
      <<U_root, U_a>> }

\* The command lines the model runs (browser_ok: ensure_browser finds a
\* browser; start_url = None: --start-url not given)
CliArgs ==
    [ browser_ok           : BOOLEAN,
      example              : BOOLEAN,
      start_url            : {U_root, U_out, U_x, U_trap, NoneValue},
      scope                : {<<"h", "t", "t", "p", ":", "/", "/", "s">>},
      exclude_paths        : {<<"/", "x", ",", " ">>},
      query_agnostic_paths : {<<>>, <<"/", "q", "/", ",", " ">>},
      state_tokens         : {<<"E", "m", "b", "e", "d">>},
      state_max_repeat     : {2},
      max_pages            : 1..MaxPages,
      wp_expand            : BOOLEAN ]

InitCli ==
    /\ pc = "main"
    /\ args \in CliArgs
    /\ queue = <<>>
    /\ to_visit = <<>>
    /\ visited = {}
    /\ sitemap = <<>>
    /\ exit_code = -1
    /\ gotos = <<>>
    /\ fetched = <<>>
    /\ last = [op |-> "none", url |-> <<>>]
    /\ slept = FALSE
    /\ call = <<>>
    /\ ret = <<>>

\* main, "normalize args"
NormalizedArgs(a) ==
    [a EXCEPT
       !.scope                = parse_scope(a.scope),
       !.exclude_paths        = CommaList(a.exclude_paths),
       !.query_agnostic_paths = RStripKept(Split(a.query_agnostic_paths, ",")),
       !.state_tokens         = LowerAll(CommaList(a.state_tokens))]

\* main: ensure_browser, parse_args, --example, the required arguments,
\* the normalisation, then asyncio.run(crawl(args)) up to the loop:
\* visited = set(), queue = [args.start_url]
cli_main ==
    /\ pc = "main"
    /\ IF ~args.browser_ok
       THEN pc' = "exit" /\ exit_code' = 1 /\ UNCHANGED <<args, queue>>
       ELSE IF args.example
       THEN pc' = "exit" /\ exit_code' = 0 /\ UNCHANGED <<args, queue>>
       ELSE IF args.start_url = NoneValue
       THEN pc' = "exit" /\ exit_code' = 2 /\ UNCHANGED <<args, queue>>
       ELSE /\ pc' = "crawl"
            /\ args' = NormalizedArgs(args)
            /\ queue' = <<args.start_url>>
            /\ UNCHANGED exit_code
    /\ UNCHANGED <<to_visit, visited, sitemap, gotos, fetched, last, slept,
                   call, ret>>

\* CrawlLoopGuard with "<=" for "<"
CrawlLoopGuard_CeilingOffByOne ==
    /\ pc = "crawl"
    /\ queue # <<>>
    /\ Cardinality(visited) <= args.max_pages

\* while queue and len(visited) < args.max_pages
CrawlLoopGuard ==
    /\ pc = "crawl"
    /\ queue # <<>>
    /\ Cardinality(visited) < args.max_pages

\* The filter a dequeued URL fails first ("pass" when none), lines 255-262
DequeueFilter(url) ==
    IF ~in_scope(url, args.scope) THEN "scope"
    ELSE IF is_excluded(url, args.exclude_paths) THEN "excluded"
    ELSE IF is_recursive_trap(url) THEN "trap"
    ELSE IF exceeds_state_token_limit(url, args.state_tokens,
                                      args.state_max_repeat)
    THEN "state"
    ELSE "pass"

\* for wp_u in wp_expand(u): if not is_recursive_trap(wp_u): queue.append(wp_u)
RECURSIVE WpAppend(_)
WpAppend(out) ==
    IF out = {} THEN <<>>
    ELSE (IF ~is_recursive_trap(CHOOSE x \in out : TRUE)
          THEN <<CHOOSE x \in out : TRUE>> ELSE <<>>)
         \o WpAppend(out \ {CHOOSE x \in out : TRUE})

\* LinkAppend with wp_expand's candidates queued without is_recursive_trap
LinkAppend_WpUnchecked(u) ==
    IF ~in_scope(u, args.scope) THEN <<>>
    ELSE IF is_recursive_trap(u) THEN <<>>
    ELSE IF exceeds_state_token_limit(u, args.state_tokens,
                                      args.state_max_repeat)
    THEN <<>>
    ELSE <<u>> \o (IF args.wp_expand /\ wp_expand(u) # {}
                   THEN <<CHOOSE x \in wp_expand(u) : TRUE>> ELSE <<>>)

\* What one extracted link appends to the queue, lines 299-311
LinkAppend(u) ==
    IF ~in_scope(u, args.scope) THEN <<>>
    ELSE IF is_recursive_trap(u) THEN <<>>
    ELSE IF exceeds_state_token_limit(u, args.state_tokens,
                                      args.state_max_repeat)
    THEN <<>>
    ELSE <<u>> \o (IF args.wp_expand THEN WpAppend(wp_expand(u)) ELSE <<>>)

\* for u in extract_urls(html, url): ...
RECURSIVE EnqueueLinks(_)
EnqueueLinks(links) ==
    IF links = <<>> THEN <<>>
    ELSE LinkAppend(Head(links)) \o EnqueueLinks(Tail(links))

\* DropFiltered with the dropped URL's key added to visited
DropFiltered_KeyMarked(url, verdict) ==
    /\ verdict # "pass"
    /\ queue' = Tail(queue)
    /\ visited' = visited \cup {smart_key(url, args.query_agnostic_paths)}
    /\ last' = [op |-> verdict, url |-> url]
    /\ UNCHANGED <<pc, args, to_visit, sitemap, exit_code, gotos, fetched,
                   slept, call, ret>>

\* An iteration that drops the dequeued URL at the filter it fails
DropFiltered(url, verdict) ==
    /\ verdict # "pass"
    /\ queue' = Tail(queue)
    /\ last' = [op |-> verdict, url |-> url]
    /\ UNCHANGED <<pc, args, to_visit, visited, sitemap, exit_code, gotos,
                   fetched, slept, call, ret>>

crawl_filtered ==
    /\ CrawlLoopGuard
    /\ DropFiltered(Head(queue), DequeueFilter(Head(queue)))

\* An iteration that finds the key in visited: "if key in visited: continue"
DropSeen(url, verdict, key) ==
    /\ verdict = "pass"
    /\ key \in visited
    /\ queue' = Tail(queue)
    /\ last' = [op |-> "seen", url |-> url]
    /\ UNCHANGED <<pc, args, to_visit, visited, sitemap, exit_code, gotos,
                   fetched, slept, call, ret>>

crawl_seen ==
    /\ CrawlLoopGuard
    /\ DropSeen(Head(queue), DequeueFilter(Head(queue)),
                smart_key(Head(queue), args.query_agnostic_paths))

\* FetchFailed without the except branch's visited.add(key)
FetchFailed_KeyNotMarked(url, verdict, key) ==
    /\ verdict = "pass"
    /\ key \notin visited
    /\ gotos' = Append(gotos, url)
    /\ queue' = Tail(queue)
    /\ last' = [op |-> "failed", url |-> url]
    /\ slept' = FALSE
    /\ UNCHANGED <<pc, args, to_visit, visited, sitemap, exit_code, fetched,
                   call, ret>>

\* An iteration whose page.goto, settle wait or page.content raises:
\* the except branch, visited.add(key); continue
FetchFailed(url, verdict, key) ==
    /\ verdict = "pass"
    /\ key \notin visited
    /\ gotos' = Append(gotos, url)
    /\ visited' = visited \cup {key}
    /\ queue' = Tail(queue)
    /\ last' = [op |-> "failed", url |-> url]
    /\ slept' = FALSE
    /\ UNCHANGED <<pc, args, to_visit, sitemap, exit_code, fetched, call, ret>>

crawl_failed ==
    /\ CrawlLoopGuard
    /\ FetchFailed(Head(queue), DequeueFilter(Head(queue)),
                   smart_key(Head(queue), args.query_agnostic_paths))

\* An iteration that fetches the page, queues its links, marks the key
\* visited and sleeps args.delay (asyncio.sleep returns: slept)
FetchSucceeded(url, verdict, key, added) ==
    /\ verdict = "pass"
    /\ key \notin visited
    /\ Len(Tail(queue) \o added) <= MaxQueue
    /\ queue' = Tail(queue) \o added
    /\ gotos' = Append(gotos, url)
    /\ fetched' = Append(fetched, url)
    /\ visited' = visited \cup {key}
    /\ last' = [op |-> "fetched", url |-> url]
    /\ slept' = TRUE
    /\ UNCHANGED <<pc, args, to_visit, sitemap, exit_code, call, ret>>

crawl_fetched ==
    /\ CrawlLoopGuard
    /\ \E links \in CliPages :
           FetchSucceeded(Head(queue), DequeueFilter(Head(queue)),
                          smart_key(Head(queue), args.query_agnostic_paths),
                          EnqueueLinks(links))

\* The loop condition fails: browser.close(), crawl and main return
crawl_exit ==
    /\ pc = "crawl"
    /\ ~CrawlLoopGuard
    /\ pc' = "done"
    /\ exit_code' = 0
    /\ UNCHANGED <<args, queue, to_visit, visited, sitemap, gotos, fetched,
                   last, slept, call, ret>>

NextCli ==
    \/ cli_main
    \/ crawl_filtered
    \/ crawl_seen
    \/ crawl_failed
    \/ crawl_fetched
    \/ crawl_exit

SpecCli == InitCli /\ [][NextCli]_vars

\* Weak fairness of the loop body (crawl_filtered, crawl_seen, crawl_failed,
\* crawl_fetched): it is enabled exactly when the loop condition holds, and
\* its steps are the steps from the loop into the loop; so either the loop
\* condition is false again and again, or an iteration completes again and
\* again
LoopBodyFair ==
    \/ []<>(~CrawlLoopGuard)
    \/ []<><<pc = "crawl" /\ pc' = "crawl">>_vars

\* crawl is one sequential task: main runs to the loop, an iteration under
\* way completes when page.goto returns or raises and the page yields
\* finitely many links, and the statements after the loop run when the loop
\* condition fails
SpecCliFair ==
    SpecCli /\ WF_vars(cli_main) /\ LoopBodyFair /\ WF_vars(crawl_exit)

----------------------------------------------------------------------------
(* src/BoberCrawler.py: main and run_spider                                *)

S_root == <<"h", "t", "t", "p", ":", "/", "/", "s", "/">>
S_lo   == <<"h", "t", "t", "p", ":", "/", "/", "s", "/", "l", "o">>
S_loc  == <<"h", "t", "t", "p", ":", "/", "/", "s", "/", "l", "o", "/", "c">>
S_los  == <<"h", "t", "t", "p", ":", "/", "/", "s", "/", "l", "o", "s">>
S_a    == <<"h", "t", "t", "p", ":", "/", "/", "s", "/", "a">>
S_out  == <<"h", "t", "t", "p", ":", "/", "/", "t", "/">>

\* What extract_links_from_html can return for a fetched page: each a set
\* of normalized URLs, listed in the order the for loop iterates it (the
\* empty one also stands for a page whose page.content() raised)
SpiderPages ==
    { <<>>,
      <<S_lo, S_los>>,
      <<S_a, S_loc, S_out>>,
      <<S_root, S_a, S_los>> }

\* The command lines and seed files the model runs; seed_urls is what
\* load_seed_urls returned, forbidden_prefixes main's local variable
SpiderArgs ==
    [ start_url          : {S_root, S_lo, S_out},
      scope_host         : {<<"s">>},
      forbidden_paths    : {<<>>, <<"/", "l", "o">>, <<"a", "/", ",", " ", "/", "l", "o", "/", "c">>},
      max_pages          : 1..MaxPages,
      seed_urls          : { <<>>, <<S_lo, S_a>>, <<S_root, S_los, S_los>>,
                             <<S_out, S_loc>> },
      forbidden_prefixes : {<<>>} ]

InitSpider ==
    /\ pc = "main"
    /\ args \in SpiderArgs
    /\ queue = <<>>
    /\ to_visit = <<>>
    /\ visited = {}
    /\ sitemap = <<>>
    /\ exit_code = -1
    /\ gotos = <<>>
    /\ fetched = <<>>
    /\ last = [op |-> "none", url |-> <<>>]
    /\ slept = FALSE
    /\ call = <<>>
    /\ ret = <<>>

\* run_spider, "for s in seed_urls": the seeds appended to to_visit
RECURSIVE SeedsKept(_, _, _)
SeedsKept(seed_urls, start_url, forbidden_prefixes) ==
    IF seed_urls = <<>> THEN <<>>
    ELSE IF Head(seed_urls) = start_url
    THEN SeedsKept(Tail(seed_urls), start_url, forbidden_prefixes)
    ELSE IF path_is_forbidden(Head(seed_urls), forbidden_prefixes)
    THEN SeedsKept(Tail(seed_urls), start_url, forbidden_prefixes)
    ELSE <<Head(seed_urls)>>
             \o SeedsKept(Tail(seed_urls), start_url, forbidden_prefixes)

\* RunSpiderSetup with the seed loop's path_is_forbidden test left out
RunSpiderSetup_SeedsUnfiltered(forbidden_prefixes) ==
    IF path_is_forbidden(args.start_url, forbidden_prefixes)
    THEN pc' = "exit" /\ exit_code' = 2 /\ UNCHANGED <<args, to_visit>>
    ELSE /\ pc' = "spider"
         /\ args' = [args EXCEPT !.forbidden_prefixes = forbidden_prefixes]
         /\ to_visit' = <<args.start_url>>
                \o SeedsKept(args.seed_urls, args.start_url, <<>>)
         /\ UNCHANGED exit_code

\* run_spider up to the loop, with main's forbidden_prefixes: the start
\* URL is validated again, then queued ahead of the seeds
RunSpiderSetup(forbidden_prefixes) ==
    IF path_is_forbidden(args.start_url, forbidden_prefixes)
    THEN pc' = "exit" /\ exit_code' = 2 /\ UNCHANGED <<args, to_visit>>
    ELSE /\ pc' = "spider"
         /\ args' = [args EXCEPT !.forbidden_prefixes = forbidden_prefixes]
         /\ to_visit' = <<args.start_url>>
                \o SeedsKept(args.seed_urls, args.start_url, forbidden_prefixes)
         /\ UNCHANGED exit_code

\* main: the start URL's scope and path are validated, then run_spider
spider_main ==
    /\ pc = "main"
    /\ IF ~is_same_scope(args.start_url, args.scope_host)
       THEN pc' = "exit" /\ exit_code' = 2 /\ UNCHANGED <<args, to_visit>>
       ELSE RunSpiderSetup(parse_forbidden_paths(args.forbidden_paths))
    /\ UNCHANGED <<queue, visited, sitemap, gotos, fetched, last, slept,
                   call, ret>>

\* SpiderLoopGuard with "<=" for "<"
SpiderLoopGuard_OffByOne ==
    /\ pc = "spider"
    /\ to_visit # <<>>
    /\ Cardinality(visited) <= args.max_pages

\* while to_visit and len(visited) < max_pages
SpiderLoopGuard ==
    /\ pc = "spider"
    /\ to_visit # <<>>
    /\ Cardinality(visited) < args.max_pages

\* What the loop does with a dequeued URL before any request, lines 263-272
SpiderVerdict(url) ==
    IF url \in visited THEN "seen"
    ELSE IF ~is_same_scope(url, args.scope_host) THEN "scope"
    ELSE IF path_is_forbidden(url, args.forbidden_prefixes) THEN "forbidden"
    ELSE "visit"

InList(x, xs) == \E i \in 1..Len(xs) : xs[i] = x

\* ScanLinks marking every dropped unknown link visited, out-of-scope ones
\* too
RECURSIVE ScanLinks_OutOfScopeMarked(_, _, _)
ScanLinks_OutOfScopeMarked(links, tv, vis) ==
    IF links = <<>> THEN [to_visit |-> tv, visited |-> vis]
    ELSE IF Head(links) \in vis \/ InList(Head(links), tv)
    THEN ScanLinks_OutOfScopeMarked(Tail(links), tv, vis)
    ELSE IF \/ ~is_same_scope(Head(links), args.scope_host)
            \/ path_is_forbidden(Head(links), args.forbidden_prefixes)
    THEN ScanLinks_OutOfScopeMarked(Tail(links), tv, vis \cup {Head(links)})
    ELSE ScanLinks_OutOfScopeMarked(Tail(links), Append(tv, Head(links)), vis)

\* "for link in links": the to_visit and visited the loop ends with
RECURSIVE ScanLinks(_, _, _)
ScanLinks(links, tv, vis) ==
    IF links = <<>> THEN [to_visit |-> tv, visited |-> vis]
    ELSE IF Head(links) \in vis \/ InList(Head(links), tv)
    THEN ScanLinks(Tail(links), tv, vis)
    ELSE IF ~is_same_scope(Head(links), args.scope_host)
    THEN ScanLinks(Tail(links), tv, vis)
    ELSE IF path_is_forbidden(Head(links), args.forbidden_prefixes)
    THEN ScanLinks(Tail(links), tv, vis \cup {Head(links)})
    ELSE ScanLinks(Tail(links), Append(tv, Head(links)), vis)

\* An iteration that ends at one of the three "continue"s; only a
\* forbidden URL is marked visited
SkipUrl(url, verdict) ==
    /\ verdict # "visit"
    /\ to_visit' = Tail(to_visit)
    /\ visited' = IF verdict = "forbidden" THEN visited \cup {url} ELSE visited
    /\ last' = [op |-> verdict, url |-> url]
    /\ UNCHANGED <<pc, args, queue, sitemap, exit_code, gotos, fetched,
                   slept, call, ret>>

spider_skip ==
    /\ SpiderLoopGuard
    /\ SkipUrl(Head(to_visit), SpiderVerdict(Head(to_visit)))

\* The except branch, lines 315-318
ExceptBranch(url) ==
    /\ to_visit' = Tail(to_visit)
    /\ visited' = visited \cup {url}
    /\ sitemap' = Append(sitemap, url)

\* An iteration whose page.goto raises
GotoRaised(url, verdict) ==
    /\ verdict = "visit"
    /\ gotos' = Append(gotos, url)
    /\ ExceptBranch(url)
    /\ last' = [op |-> "goto_raised", url |-> url]
    /\ slept' = FALSE
    /\ UNCHANGED <<pc, args, queue, exit_code, fetched, call, ret>>

spider_goto_raised ==
    /\ SpiderLoopGuard
    /\ GotoRaised(Head(to_visit), SpiderVerdict(Head(to_visit)))

\* An iteration whose page.goto returns and whose link extraction raises
\* (an empty srcset candidate, IndexError): the same except branch
ExtractRaised(url, verdict) ==
    /\ verdict = "visit"
    /\ gotos' = Append(gotos, url)
    /\ fetched' = Append(fetched, url)
    /\ ExceptBranch(url)
    /\ last' = [op |-> "extract_raised", url |-> url]
    /\ slept' = FALSE
    /\ UNCHANGED <<pc, args, queue, exit_code, call, ret>>

spider_extract_raised ==
    /\ SpiderLoopGuard
    /\ ExtractRaised(Head(to_visit), SpiderVerdict(Head(to_visit)))

\* An iteration that fetches the page, queues its links, marks the URL
\* visited, appends it to the sitemap and sleeps
Visited(url, verdict, scan) ==
    /\ verdict = "visit"
    /\ gotos' = Append(gotos, url)
    /\ fetched' = Append(fetched, url)
    /\ to_visit' = scan.to_visit
    /\ visited' = scan.visited \cup {url}
    /\ sitemap' = Append(sitemap, url)
    /\ last' = [op |-> "visited", url |-> url]
    /\ slept' = TRUE
    /\ UNCHANGED <<pc, args, queue, exit_code, call, ret>>

spider_visited ==
    /\ SpiderLoopGuard
    /\ \E links \in SpiderPages :
           Visited(Head(to_visit), SpiderVerdict(Head(to_visit)),
                   ScanLinks(links, Tail(to_visit), visited))

\* The loop condition fails: the browser is closed, the sitemap list is
\* written to SITEMAP_FILE line by line, main returns
spider_exit ==
    /\ pc = "spider"
    /\ ~SpiderLoopGuard
    /\ pc' = "done"
    /\ exit_code' = 0
    /\ UNCHANGED <<args, queue, to_visit, visited, sitemap, gotos, fetched,
                   last, slept, call, ret>>

NextSpider ==
    \/ spider_main
    \/ spider_skip
    \/ spider_goto_raised
    \/ spider_extract_raised
    \/ spider_visited
    \/ spider_exit

SpecSpider == InitSpider /\ [][NextSpider]_vars

----------------------------------------------------------------------------
(* The pure functions, each called once on an input of a bounded set       *)

\* forbidden-path entries per --forbidden-paths string: 0..MaxEntries
MaxEntries == 2
\* path segments of the URLs given to is_recursive_trap: 0..MaxTrapSegs
MaxTrapSegs == 2
\* path segments of the URLs given to exceeds_state_token_limit
MaxTokenSegs == 3

SeqsUpTo(S, n) == UNION {[1..k -> S] : k \in 0..n}

HOST_S == <<"h", "t", "t", "p", ":", "/", "/", "s">>

\* "/" + "/".join(segs)
SlashPath(segs) == <<"/">> \o Join(segs, "/")

\* --forbidden-paths strings: up to MaxEntries entries joined by ","
ForbiddenRaws ==
    { Join(es, ",") :
          es \in SeqsUpTo({<<"/", "l", "o">>, <<"l", "o", "/">>, <<"/">>, <<"/", "l", "o", "/", "c">>, <<"/", "/">>, <<" ", "p", " ">>},
                          MaxEntries) }

ForbiddenUrls ==
    { HOST_S \o p :
          p \in {<<>>, <<"/">>, <<"/", "l", "o">>, <<"/", "l", "o", "/">>, <<"/", "l", "o", "/", "c">>, <<"/", "l", "o", "s">>, <<"/", "p">>,
                 <<"/", "p", "/", "l", "o">>} }

\* A query value one character longer than max_param_len
LongValue == [i \in 1..(DEFAULT_MAX_PARAM_LEN + 1) |-> "x"]

TrapPaths ==
    {<<>>} \cup
    UNION { {SlashPath(segs), SlashPath(segs) \o <<"/">>} :
                segs \in SeqsUpTo({<<"a">>, <<"b">>, <<"c">>, <<"p">>}, MaxTrapSegs) }

TrapQueries ==
    { <<>>, <<"?">>, <<"?", "n", "e", "x", "t", "=", "/", "a", "/", "a", "/", "a">>, <<"?", "n", "e", "x", "t", "=", "/", "a", "/", "b", "/", "c">>, <<"?", "n", "e", "x", "t">>, <<"?", "n", "e", "x", "t", "=", "/", "a", "/", "a">>,
      <<"?", "n", "=", "%", "2", "F", "a", "%", "2", "F", "a", "%", "2", "f", "a">>, <<"?", "k", "=", "1", "&", "n", "e", "x", "t", "=", "/", "a", "/", "a", "/", "a">>, <<"?", "v", "=">> \o LongValue }

TrapUrls == { HOST_S \o p \o q : p \in TrapPaths, q \in TrapQueries }

TokenUrls ==
    { HOST_S \o SlashPath(segs) \o q :
          segs \in SeqsUpTo({<<"e", "m", "b", "e", "d">>, <<"E", "m", "b", "e", "d">>, <<"x">>}, MaxTokenSegs),
          q \in { <<>>, <<"?", "v", "=", "e", "m", "b", "e", "d">>, <<"?", "v", "=", "e", "m", "b", "e", "d", "/", "e", "m", "b", "e", "d", ";", "e", "m", "b", "e", "d">>,
                  <<"?", "v", "=", "%", "2", "F", "e", "m", "b", "e", "d", "%", "3", "B", "E", "m", "b", "e", "d">>, <<"?", "e", "m", "b", "e", "d">>, <<"?", "e", "m", "b", "e", "d", "=", "x", "&", "w", "=", "e", "m", "b", "e", "d">>,
                  <<"?", "v", "=", "x", ";", "e", "m", "b", "e", "d", "&", "w", "=", "a", "=", "e", "m", "b", "e", "d">> } }

\* query parts of the URLs given to smart_key: 0..MaxParams
MaxParams == 3

\* 'key=value' query parts; a=%31 decodes to a=1
KeyParts == {<<"b", "=", "2">>, <<"a", "=", "%", "3", "1">>, <<"B", "=", "2">>}

KeyPaths == {<<>>, <<"/", "q">>, <<"/", "q", "/", "x">>, <<"/", "p">>}

\* scheme://host + path + "?" + "&".join(parts)
KeyUrl(path, parts) ==
    HOST_S \o path \o (IF parts = <<>> THEN <<>> ELSE <<"?">> \o Join(parts, "&"))

\* path segments of the links given to normalize_url: 0..MaxLinkSegs
MaxLinkSegs == 2

\* the pages the links were found on
LinkBases == {<<"h", "t", "t", "p", ":", "/", "/", "s", "/">>, <<"h", "t", "t", "p", ":", "/", "/", "s", "/", "d", "/", "p">>, <<"h", "t", "t", "p", "s", ":", "/", "/", "S", "/", "d", "/", "?", "q", "=", "1">>}

\* candidate links: a prefix, up to MaxLinkSegs segments, a suffix; a%2525
\* is an encoded "%25", a%23f an encoded "#"
Links ==
    { pre \o Join(segs, "/") \o suf :
          pre \in {<<>>, <<"/">>, <<"h", "t", "t", "p", ":", "/", "/", "S", "/">>, <<"h", "t", "t", "p", ":", "/", "s", "/">>},
          segs \in SeqsUpTo({<<"a">>, <<".", ".">>, <<"a", "%", "2", "5", "2", "5">>, <<"a", "%", "2", "3", "f">>}, MaxLinkSegs),
          suf \in {<<>>, <<"?", "q", "=", "1">>, <<"#", "f">>} }
    \cup {<<" ">>, <<" ", "/", "a", " ">>, <<"m", "a", "i", "l", "t", "o", ":", "x">>, <<"J", "a", "v", "a", "S", "c", "r", "i", "p", "t", ":", "x">>, <<"t", "e", "l", ":", "1">>, <<"f", "t", "p", ":", "/", "/", "s", "/", "f">>,
          <<"/", "/", "T", "/", "x", ";", "p">>, <<"h", "t", "t", "p", "s", ":", "/", "s">>}

FnCalls ==
    [fn : {"path_is_forbidden"}, raw : ForbiddenRaws, url : ForbiddenUrls]
    \cup [fn : {"normalize_url"}, base : LinkBases, link : Links]
    \cup [fn : {"smart_key"}, path : KeyPaths,
          parts : SeqsUpTo(KeyParts, MaxParams),
          other : SeqsUpTo(KeyParts, MaxParams),
          query_agnostic_paths : {<<>>, <<"/", "q", "/", ",", " ">>}]
    \cup [fn : {"is_recursive_trap"}, url : TrapUrls]
    \cup [fn : {"exceeds_state_token_limit"}, url : TokenUrls,
          state_tokens : {<<"e", "m", "b", "e", "d">>, <<"x", ",", " ", "E", "m", "b", "e", "d">>, <<>>}, max_repeat : 1..3]

InitFn ==
    /\ pc = "call"
    /\ call \in FnCalls
    /\ ret = "none"
    /\ args = <<>>
    /\ queue = <<>>
    /\ to_visit = <<>>
    /\ visited = {}
    /\ sitemap = <<>>
    /\ exit_code = -1
    /\ gotos = <<>>
    /\ fetched = <<>>
    /\ last = [op |-> "none", url |-> <<>>]
    /\ slept = FALSE

Returns(value) ==
    /\ pc' = "returned"
    /\ ret' = value
    /\ UNCHANGED <<args, queue, to_visit, visited, sitemap, exit_code, gotos,
                   fetched, last, slept, call>>

\* path_is_forbidden(url, parse_forbidden_paths(raw))
fn_path_is_forbidden ==
    /\ pc = "call"
    /\ call.fn = "path_is_forbidden"
    /\ Returns(path_is_forbidden(call.url, parse_forbidden_paths(call.raw)))

\* is_recursive_trap(url)
fn_is_recursive_trap ==
    /\ pc = "call"
    /\ call.fn = "is_recursive_trap"
    /\ Returns(is_recursive_trap(call.url))

\* exceeds_state_token_limit(url, args.state_tokens, args.state_max_repeat),
\* the tokens as main normalises --state-tokens
fn_exceeds_state_token_limit ==
    /\ pc = "call"
    /\ call.fn = "exceeds_state_token_limit"
    /\ Returns(exceeds_state_token_limit(
                   call.url, LowerAll(CommaList(call.state_tokens)),
                   call.max_repeat))

\* smart_key of two URLs with the same scheme, host and path, the
\* query-agnostic prefixes as main normalises --query-agnostic-paths
KeyPair(url, other_url, query_agnostic_paths) ==
    <<smart_key(url, query_agnostic_paths),
      smart_key(other_url, query_agnostic_paths)>>

fn_smart_key ==
    /\ pc = "call"
    /\ call.fn = "smart_key"
    /\ Returns(KeyPair(KeyUrl(call.path, call.parts),
                       KeyUrl(call.path, call.other),
                       RStripKept(Split(call.query_agnostic_paths, ","))))

\* n and, when n is a URL, normalize_url(n, n)
NormalizedAgain(n) ==
    <<n, IF n = NoneValue THEN NoneValue ELSE normalize_url(n, n)>>

\* normalize_url(base, link), then normalize_url applied to its result
fn_normalize_url ==
    /\ pc = "call"
    /\ call.fn = "normalize_url"
    /\ Returns(NormalizedAgain(normalize_url(call.base, call.link)))

NextFn ==
    \/ fn_path_is_forbidden
    \/ fn_normalize_url
    \/ fn_smart_key
    \/ fn_is_recursive_trap
    \/ fn_exceeds_state_token_limit

SpecFn == InitFn /\ [][NextFn]_vars

----------------------------------------------------------------------------
(* Properties of run_spider (SpecSpider)                                   *)

\* C1: run_spider never passes a URL whose path is forbidden to page.goto,
\* and no forbidden URL, seed or link, is ever in the to_visit queue.
C1_NoForbiddenRequested ==
    pc \in {"spider", "done"} =>
        /\ \A i \in 1..Len(gotos) :
               ~path_is_forbidden(gotos[i], args.forbidden_prefixes)
        /\ \A i \in 1..Len(to_visit) :
               ~path_is_forbidden(to_visit[i], args.forbidden_prefixes)

\* A run whose seed file holds a forbidden URL, that has requested a page
\* and has met a forbidden link
C1_Witness ==
    /\ pc = "spider"
    /\ gotos # <<>>
    /\ \E i \in 1..Len(args.seed_urls) :
           path_is_forbidden(args.seed_urls[i], args.forbidden_prefixes)
    /\ \E u \in visited : path_is_forbidden(u, args.forbidden_prefixes)

\* C4: page.goto is attempted at most max_pages times and the sitemap has
\* at most max_pages lines; with max_pages = 1 the finished run has made
\* exactly one attempt and written exactly one line.
C4_PageCeiling ==
    pc \in {"spider", "done"} =>
        /\ Len(gotos) <= args.max_pages
        /\ Len(sitemap) <= args.max_pages
        /\ (pc = "done" /\ args.max_pages = 1) =>
               (Len(gotos) = 1 /\ Len(sitemap) = 1)

\* A finished run with max_pages = 1 that loaded seeds and left URLs queued
C4_Witness ==
    /\ pc = "done"
    /\ args.max_pages = 1
    /\ args.seed_urls # <<>>
    /\ Len(to_visit) >= 2
    /\ Len(gotos) = 1
    /\ Len(sitemap) = 1

\* C5: the sitemap is exactly the list of the URLs whose page.goto
\* returned, in visit order; a URL whose page.goto raised is not in it.
C5_SitemapIsFetched ==
    pc \in {"spider", "done"} => sitemap = fetched

----------------------------------------------------------------------------
(* Properties of crawl (SpecCli)                                           *)

\* C2: every URL passed to page.goto is in scope, not excluded, no
\* recursive trap and within the state-token limit; and no URL queued
\* from a page, wp_expand's additions included, is a recursive trap.
C2_GotoPassesFilters ==
    pc \in {"crawl", "done"} =>
        /\ \A i \in 1..Len(gotos) : DequeueFilter(gotos[i]) = "pass"
        /\ \A i \in 1..Len(queue) :
               queue[i] = args.start_url \/ ~is_recursive_trap(queue[i])

\* A run with --wp-expand that requested a URL wp_expand had queued
C2_Witness ==
    /\ pc \in {"crawl", "done"}
    /\ args.wp_expand
    /\ \E i \in 1..Len(gotos) : gotos[i] = U_aemb

\* C3: no two page.goto attempts of a run are for URLs with the same
\* smart_key, whether the earlier attempt succeeded or failed.
C3_KeyFetchedOnce ==
    pc \in {"crawl", "done"} =>
        \A i, j \in 1..Len(gotos) :
            i # j => smart_key(gotos[i], args.query_agnostic_paths)
                         # smart_key(gotos[j], args.query_agnostic_paths)

\* The fetch of ?b=2&a=1 failed, and ?a=1&b=2 was then dequeued and dropped
C3_Witness ==
    /\ pc = "crawl"
    /\ InList(U_q2, gotos)
    /\ ~InList(U_q2, fetched)
    /\ last = [op |-> "seen", url |-> U_q1]

C7_StartupFailsFast ==
    (pc = "done"
        /\ (~in_scope(args.start_url, args.scope)
              \/ is_excluded(args.start_url, args.exclude_paths))) =>
        (exit_code # 0 /\ gotos = <<>>)

----------------------------------------------------------------------------
(* Properties of the pure functions (SpecFn)                               *)

LO == <<"/", "l", "o">>

\* The orders of a list of n entries
Orders(n) == {f \in [1..n -> 1..n] : \A i, j \in 1..n : f[i] = f[j] => i = j}

\* C8: with the prefixes parse_forbidden_paths produced, path_is_forbidden
\* is true exactly when some prefix is "/", equals the path, or the path
\* begins with prefix + "/"; the order of the prefixes does not matter;
\* prefix /lo blocks /lo and /lo/c and not /los.
C8_SegmentBoundary ==
    (pc = "returned" /\ call.fn = "path_is_forbidden") =>
        LET prefixes == parse_forbidden_paths(call.raw)
            path     == PathOrRoot(urlparse(call.url))
        IN  /\ ret = (\E i \in 1..Len(prefixes) :
                          \/ prefixes[i] = <<"/">>
                          \/ prefixes[i] = path
                          \/ StartsWith(path, prefixes[i] \o <<"/">>))
            /\ \A f \in Orders(Len(prefixes)) :
                   path_is_forbidden(
                       call.url, [i \in 1..Len(prefixes) |-> prefixes[f[i]]])
                       = ret
            /\ prefixes = <<LO>> =>
                   /\ path \in {<<"/", "l", "o">>, <<"/", "l", "o", "/", "c">>} => ret
                   /\ path = <<"/", "l", "o", "s">> => ~ret

\* /los was tested against the one prefix /lo and is not forbidden
C8_Witness ==
    /\ pc = "returned"
    /\ call.fn = "path_is_forbidden"
    /\ parse_forbidden_paths(call.raw) = <<LO>>
    /\ urlparse(call.url).path = <<"/", "l", "o", "s">>
    /\ ret = FALSE

NEXT_AAA == <<"n", "e", "x", "t", "=", "/", "a", "/", "a", "/", "a">>
NEXT_ABC == <<"n", "e", "x", "t", "=", "/", "a", "/", "b", "/", "c">>

\* C9 as claimed: whatever the path, ?next=/a/a/a is flagged, ?next=/a/b/c
\* is not flagged, and a URL without a query is never flagged.
C9_AsClaimed ==
    (pc = "returned" /\ call.fn = "is_recursive_trap") =>
        /\ urlparse(call.url).query = NEXT_AAA => ret
        /\ urlparse(call.url).query = NEXT_ABC => ~ret
        /\ urlparse(call.url).query = <<>> => ~ret

\* C9, amended: ?next=/a/a/a is flagged whatever the path; ?next=/a/b/c is
\* flagged exactly when the path without its leading and trailing "/" is
\* non-empty and occurs in /a/b/c; a URL without a query is never flagged.
C9_TrapExamples ==
    (pc = "returned" /\ call.fn = "is_recursive_trap") =>
        /\ urlparse(call.url).query = NEXT_AAA => ret
        /\ urlparse(call.url).query = NEXT_ABC =>
               (ret <=> /\ Strip(urlparse(call.url).path, "/") # <<>>
                        /\ Contains(<<"/", "a", "/", "b", "/", "c">>,
                                    Strip(urlparse(call.url).path, "/")))
        /\ urlparse(call.url).query = <<>> => ~ret

\* ?next=/a/b/c under path /p was tested and is not flagged
C9_Witness ==
    /\ pc = "returned"
    /\ call.fn = "is_recursive_trap"
    /\ call.url = <<"h", "t", "t", "p", ":", "/", "/", "s", "/", "p", "?", "n", "e", "x", "t", "=", "/", "a", "/", "b", "/", "c">>
    /\ ret = FALSE

\* The places where tok stands in s as a whole piece between separators
Occurrences(s, tok, seps) ==
    Cardinality(
        { i \in 1..(Len(s) - Len(tok) + 1) :
              /\ SubSeq(s, i, i + Len(tok) - 1) = tok
              /\ i = 1 \/ s[i - 1] \in seps
              /\ i + Len(tok) > Len(s) \/ s[i + Len(tok)] \in seps })

Folded(s, fold) == IF fold THEN Lower(s) ELSE s

\* The pieces equal to tok in the decoded values of the query parameters
RECURSIVE ValueOccurrences(_, _, _)
ValueOccurrences(params, tok, fold) ==
    IF params = <<>> THEN 0
    ELSE (IF Find(Head(params), "=") = 0 THEN 0
          ELSE Occurrences(
                   Folded(unquote(Split1(Head(params), "=")[2]), fold),
                   tok, {"/", ";"}))
         + ValueOccurrences(Tail(params), tok, fold)

\* Path segments equal to tok plus query-value pieces equal to tok
TokenTotal(url, tok, fold) ==
    Occurrences(Folded(urlparse(url).path, fold), tok, {"/"})
        + ValueOccurrences(Split(urlparse(url).query, "&"), tok, fold)

EMBED3 == <<"h", "t", "t", "p", ":", "/", "/", "s", "/", "e", "m", "b", "e", "d", "/", "e", "m", "b", "e", "d", "/", "e", "m", "b", "e", "d">>

\* C10 as claimed: the URL is rejected exactly when, for some token, the
\* path segments equal to it plus the "/"- or ";"-separated pieces of the
\* decoded query values equal to it number more than max_repeat.
C10_AsClaimed ==
    (pc = "returned" /\ call.fn = "exceeds_state_token_limit") =>
        LET tokens == LowerAll(CommaList(call.state_tokens)) IN
        ret = (\E t \in 1..Len(tokens) :
                   TokenTotal(call.url, tokens[t], FALSE) > call.max_repeat)

\* C10, amended: the same with the path and the decoded query values
\* lower-cased before they are compared with the (lower-case) tokens; a
\* URL with embed three times is rejected at max_repeat 2, accepted at 3.
C10_CaseFolded ==
    (pc = "returned" /\ call.fn = "exceeds_state_token_limit") =>
        LET tokens == LowerAll(CommaList(call.state_tokens)) IN
        /\ ret = (\E t \in 1..Len(tokens) :
                      TokenTotal(call.url, tokens[t], TRUE) > call.max_repeat)
        /\ (call.url = EMBED3 /\ tokens = <<<<"e", "m", "b", "e", "d">>>>) =>
               (ret <=> call.max_repeat < 3)

\* embed three times in the path was tested at max_repeat 2 and rejected
C10_Witness ==
    /\ pc = "returned"
    /\ call.fn = "exceeds_state_token_limit"
    /\ call.url = EMBED3
    /\ call.state_tokens = <<"e", "m", "b", "e", "d">>
    /\ call.max_repeat = 2
    /\ ret = TRUE

----------------------------------------------------------------------------
(* Properties of smart_key (SpecFn)                                        *)

\* xs and ys hold the same elements the same number of times
IsPermutation(xs, ys) ==
    /\ Len(xs) = Len(ys)
    /\ \A x \in KeyParts : Count(xs, x) = Count(ys, x)

\* the path of the call starts with a configured query-agnostic prefix
UnderAgnosticPrefix ==
    LET prefixes == RStripKept(Split(call.query_agnostic_paths, ","))
        path     == IF call.path = <<>> THEN <<"/">> ELSE call.path
    IN  \E i \in 1..Len(prefixes) : StartsWith(path, prefixes[i])

\* C11: two URLs with the same scheme, host and path whose 'key=value' query
\* parts are a permutation of each other get the same smart_key; and under
\* a configured query-agnostic prefix two URLs that differ only in their
\* query get the same smart_key.
C11_KeyOrderInvariant ==
    (pc = "returned" /\ call.fn = "smart_key") =>
        /\ IsPermutation(call.parts, call.other) => ret[1] = ret[2]
        /\ UnderAgnosticPrefix => ret[1] = ret[2]

\* Three parts in two different orders, outside every query-agnostic
\* prefix, were keyed alike
C11_Witness ==
    /\ pc = "returned"
    /\ call.fn = "smart_key"
    /\ call.path = <<"/", "p">>
    /\ call.parts = <<<<"b", "=", "2">>, <<"a", "=", "%", "3", "1">>, <<"B", "=", "2">>>>
    /\ call.other = <<<<"B", "=", "2">>, <<"b", "=", "2">>, <<"a", "=", "%", "3", "1">>>>
    /\ ~UnderAgnosticPrefix
    /\ ret[1] = ret[2]
    /\ ret[1] = <<"h", "t", "t", "p", ":", "/", "/", "s", "/", "p", "?", "B", "=", "2", "&", "a", "=", "1", "&", "b", "=", "2">>

----------------------------------------------------------------------------
(* Properties of normalize_url (SpecFn)                                    *)

\* C12 as claimed: whenever normalize_url(base, link) returns a URL n,
\* normalize_url(n, n) returns n again.
C12_Idempotent ==
    (pc = "returned" /\ call.fn = "normalize_url" /\ ret[1] # NoneValue) =>
        ret[2] = ret[1]

\* Link /a%2525 found on http://s/ normalises to http://s/a%25, which
\* normalises to http://s/a%
C12_DoubleDecoded ==
    /\ pc = "returned"
    /\ call.fn = "normalize_url"
    /\ call.base = <<"h", "t", "t", "p", ":", "/", "/", "s", "/">>
    /\ call.link = <<"/", "a", "%", "2", "5", "2", "5">>
    /\ ret = <<<<"h", "t", "t", "p", ":", "/", "/", "s", "/", "a", "%", "2", "5">>, <<"h", "t", "t", "p", ":", "/", "/", "s", "/", "a", "%">>>>

----------------------------------------------------------------------------
(* The visited set of run_spider (SpecSpider)                              *)

\* C13 as claimed: visited only grows, a requested URL is in visited after
\* its iteration, and an iteration adds nothing to visited but the URL it
\* dequeued, once that URL was requested or filtered as forbidden.
C13_OnlyDequeuedMarked ==
    [][ /\ visited \subseteq visited'
        /\ gotos' # gotos => Head(to_visit) \in visited'
        /\ visited' # visited =>
               /\ to_visit # <<>>
               /\ visited' = visited \cup {Head(to_visit)}
               /\ SpiderVerdict(Head(to_visit)) \in {"visit", "forbidden"}
      ]_vars

\* C13, amended: visited only grows, a requested URL is in visited after
\* its iteration, and what an iteration adds to visited is either the URL
\* it dequeued (requested, or filtered as forbidden) or an in-scope link
\* with a forbidden path found on the page it fetched; such a link is not
\* queued.
C13_DequeuedOrForbiddenLink ==
    [][ /\ visited \subseteq visited'
        /\ gotos' # gotos => Head(to_visit) \in visited'
        /\ \A u \in visited' \ visited :
               /\ to_visit # <<>>
               /\ \/ /\ u = Head(to_visit)
                     /\ SpiderVerdict(u) \in {"visit", "forbidden"}
                  \/ /\ last'.op = "visited"
                     /\ fetched' = Append(fetched, Head(to_visit))
                     /\ is_same_scope(u, args.scope_host)
                     /\ path_is_forbidden(u, args.forbidden_prefixes)
                     /\ ~InList(u, to_visit')
      ]_vars

\* With --forbidden-paths /lo and --max-pages 2 the run ended after one
\* request: the link http://s/lo was marked visited without being dequeued
\* or requested, and a queued URL was left unvisited
C13_Witness ==
    /\ pc = "done"
    /\ args.max_pages = 2
    /\ gotos = <<S_root>>
    /\ visited = {S_root, S_lo}
    /\ to_visit # <<>>

----------------------------------------------------------------------------
(* Termination of crawl (SpecCliFair)                                      *)

\* C14: every run of cli.py ends; crawl leaves its loop with the queue
\* empty or len(visited) at max_pages; and every page.goto adds exactly
\* one new key to visited.
C14_CrawlTerminates ==
    /\ <>(pc \in {"exit", "done"})
    /\ [](pc = "done" =>
              queue = <<>> \/ Cardinality(visited) = args.max_pages)
    /\ [][gotos' # gotos =>
              /\ smart_key(Head(queue), args.query_agnostic_paths) \notin visited
              /\ visited' = visited
                     \cup {smart_key(Head(queue), args.query_agnostic_paths)}
         ]_vars

\* With --wp-expand a run ended at the page ceiling MaxPages, a URL still
\* queued twice
C14_Witness ==
    /\ pc = "done"
    /\ args.wp_expand
    /\ args.max_pages = MaxPages
    /\ Cardinality(visited) = MaxPages
    /\ \E i, j \in 1..Len(queue) : i < j /\ queue[i] = queue[j]

----------------------------------------------------------------------------
(* The inter-request delay of crawl (SpecCli)                              *)

\* C15 as claimed: when crawl calls page.goto and has called it before,
\* asyncio.sleep(args.delay) was waited since the earlier call, whether
\* that fetch succeeded or failed.
C15_DelayBetweenGotos ==
    [][(gotos' # gotos /\ gotos # <<>>) => slept]_vars

\* A page.goto raised and no delay was slept, with a URL still queued and
\* the page ceiling not reached: the next iteration requests it at once
C15_FailedNoDelay ==
    /\ pc = "crawl"
    /\ last.op = "failed"
    /\ ~slept
    /\ CrawlLoopGuard
    /\ DequeueFilter(Head(queue)) = "pass"
    /\ smart_key(Head(queue), args.query_agnostic_paths) \notin visited

====
